---- MODULE Spec2Model ----
(***************************************************************************)
(* Kubrick video generation: the generate / validate / capture / review    *)
(* loop of KubrickPipeline.generate_video and _process_subprocess, with    *)
(* the Director, Programmer, Executor and Reviewer it calls.               *)
(*                                                                         *)
(* Scores are held in hundredths (0.8 is 80).  A script is a token naming  *)
(* the sub-process and the attempt that produced it; the accumulated       *)
(* script is the sequence of the tokens concatenated so far.               *)
(***************************************************************************)
EXTENDS Integers, Sequences, FiniteSets, TLC

\* ------------------------------------------------------------------ bounds
\* max_iterations up to MaxIter is run on every decomposition, and up to
\* MaxDeepIter on the decompositions of at most MaxDeepKeys keys
MaxIter == 2
MaxDeepIter == 5
MaxDeepKeys == 2
\* durations of a video, in half seconds
MaxHalfSeconds == 6
\* tokens in a raw generation output
MaxTextLen == 4

\* --------------------------------------------------------------- constants
LibraryUpdateThreshold == 3
num_keys == 5
PassScore == 80
RevisionScore == 50

\* core/enums.py SubProcess, in declaration order
SubProcess == <<"scene", "character", "motion", "lighting", "cinematography">>

PASSED == "passed"
FAILED == "failed"
NEEDS_REVISION == "needs_revision"
ReviewStatus == {PASSED, FAILED, NEEDS_REVISION}

\* Python's None for an optional ReviewFeedback, in the record's shape
None ==
  [status |-> "None", score |-> 0, issues |-> "", suggestions |-> <<>>,
   reviewed_at |-> <<0, 0>>]

\* core/data_models.py ReviewFeedback; reviewed_at is the creation instant,
\* here the logical instant (sub-process index, iteration) of the call
ReviewFeedback(status, score, issues, suggestions, now) ==
  [status |-> status, score |-> score, issues |-> issues,
   suggestions |-> suggestions, reviewed_at |-> now]

\* ReviewFeedback.passed
passed(fb) == fb.status = PASSED

\* scripts
Script(sp, attempt) == [sp |-> sp, attempt |-> attempt]
EmptyScript == Script("", 0)
_get_base_script == Script("base", 0)

\* core/data_models.py ScriptResult, the fields the pipeline reads
ScriptResult(ok, script, error) ==
  [success |-> ok, script |-> script, error |-> error]

\* ------------------------------------------------------- collaborators' inputs
\* keys of the raw decomposition the model returned (one unknown key)
RawKeys == {"scene", "character", "motion", "lighting", "cinematography", "props"}
RawDecompositions == SUBSET RawKeys
DecompositionsFor(m) ==
  IF m <= MaxIter THEN RawDecompositions
  ELSE { d \in RawDecompositions : Cardinality(d) <= MaxDeepKeys }

\* replies of the review model: the passed flag, the score, the suggestions;
\* the score is whatever number the reply holds
ReviewReplies ==
  { [passed |-> TRUE,  score |-> 150, suggestions |-> <<>>],
    [passed |-> TRUE,  score |-> 85, suggestions |-> <<>>],
    [passed |-> TRUE,  score |-> 80, suggestions |-> <<>>],
    [passed |-> TRUE,  score |-> 60, suggestions |-> <<"s">>],
    [passed |-> FALSE, score |-> 90, suggestions |-> <<"s">>],
    [passed |-> FALSE, score |-> 50, suggestions |-> <<>>],
    [passed |-> FALSE, score |-> 30, suggestions |-> <<"s">>] }

\* name-to-code maps the model returns to update_library (names only)
NewFunctionMaps == { {}, {"fix_scene"} }

\* what a render leaves behind: the exit status and the output file
RenderOutcomes ==
  { [returncode |-> 0, file |-> "complete"],
    [returncode |-> 0, file |-> "absent"],
    [returncode |-> 1, file |-> "absent"],
    [returncode |-> 1, file |-> "partial"] }

\* ------------------------------------------------------------- pure functions
\* agents/director.py _parse_decomposition: one entry per taxonomy member
\* whose value is a key of the decomposition, order = enumeration index
_parse_decomposition_positional(decomposition) ==
  LET all == [i \in 1..Len(SubProcess) |-> SubProcess[i]]
      kept == SelectSeq(all, LAMBDA t : t \in decomposition)
  IN  [i \in 1..Len(kept) |-> [process_type |-> kept[i], order |-> i - 1]]
_parse_decomposition(decomposition) ==
  LET all == [i \in 1..Len(SubProcess) |->
                [process_type |-> SubProcess[i], order |-> i - 1]]
  IN  SelectSeq(all, LAMBDA sp : sp.process_type \in decomposition)

\* _parse_review with the pass threshold taken strictly
_parse_review_strict(review_data, now) ==
  LET status == IF review_data.passed /\ review_data.score > PassScore
                  THEN PASSED
                ELSE IF review_data.score >= RevisionScore
                  THEN NEEDS_REVISION
                ELSE FAILED
  IN  ReviewFeedback(status, review_data.score, "review",
                     review_data.suggestions, now)

\* agents/reviewer.py _parse_review
_parse_review(review_data, now) ==
  LET status == IF review_data.passed /\ review_data.score >= PassScore
                  THEN PASSED
                ELSE IF review_data.score >= RevisionScore
                  THEN NEEDS_REVISION
                ELSE FAILED
  IN  ReviewFeedback(status, review_data.score, "review",
                     review_data.suggestions, now)

\* agents/reviewer.py review_output, the except branch
ReviewFailed(now) ==
  ReviewFeedback(FAILED, 0, "Review failed", <<"Check visual output generation">>, now)

\* agents/reviewer.py review_final_video, no frame could be read
VideoLoadFailed(now) ==
  ReviewFeedback(FAILED, 0, "Failed to load video",
                 <<"Check video file path and format">>, now)

\* pipeline/kubrick.py _process_subprocess, feedback for an invalid script
ValidationFeedback_revision(now) ==
  ReviewFeedback(NEEDS_REVISION, 0, "Script syntax error",
                 <<"Fix Python syntax errors", "Check Blender API usage">>, now)
ValidationFeedback(now) ==
  ReviewFeedback(FAILED, 0, "Script syntax error",
                 <<"Fix Python syntax errors", "Check Blender API usage">>, now)

\* pipeline/kubrick.py _process_subprocess, feedback for an empty capture
CaptureFeedback_revision(now) ==
  ReviewFeedback(NEEDS_REVISION, 50, "Failed to render preview",
                 <<"Check script execution", "Verify scene setup">>, now)
CaptureFeedback(now) ==
  ReviewFeedback(FAILED, 0, "Failed to render preview",
                 <<"Check script execution", "Verify scene setup">>, now)

\* blender/executor.py execute_script: success is the exit status alone
execute_script(outcome) ==
  ScriptResult(outcome.returncode = 0, EmptyScript,
               IF outcome.returncode = 0 THEN "None" ELSE "stderr")

\* ------------------------------------------------------------ function library
\* blender/library.py _load_builtin_functions: the names of the built-in
\* functions; a body is the token "builtin"
BuiltinNames ==
  { "import_asset", "scale_asset", "rotate_asset", "position_asset",
    "apply_material",
    "set_motion", "create_walk_cycle", "create_jump_motion",
    "apply_armature_action",
    "scale_asset_to_real_world_dimensions", "rotate_asset_to_point",
    "clear_scene", "setup_render_settings", "duplicate_asset",
    "setup_three_point_lighting", "setup_natural_lighting",
    "setup_dramatic_lighting", "setup_studio_lighting",
    "setup_camera", "animate_orbit_camera", "animate_dolly_camera",
    "animate_tracking_camera", "animate_handheld_camera",
    "setup_shot_composition" }
_load_builtin_functions == [n \in BuiltinNames |-> "builtin"]

\* names and bodies the library is updated with: a mapped built-in name and
\* a mapped name that is not built in; a body may be the empty string
UpdateNames == {"import_asset", "setup_lighting"}
Codes == {"", "new"}
NoMap == [n \in {} |-> ""]
ReplyMaps == UNION { [names -> Codes] : names \in SUBSET UpdateNames }

\* the document at custom_functions_path
NoFile == [state |-> "absent", content |-> NoMap]
Written(content) == [state |-> "written", content |-> content]
BrokenFile == [state |-> "broken", content |-> NoMap]
WriteOutcomes == {"ok", "untouched", "truncated"}

\* dict.update / item assignment
dict_update(fs, other) ==
  [n \in DOMAIN fs \cup DOMAIN other |->
     IF n \in DOMAIN other THEN other[n] ELSE fs[n]]
dict_set(fs, name, code) ==
  [n \in DOMAIN fs \cup {name} |-> IF n = name THEN code ELSE fs[n]]

\* BlenderFunctionLibrary.__init__ with _load_custom_functions: a readable
\* document is merged over the built-in functions, anything else is skipped
library_init_builtin_first(file) ==
  IF file.state = "written"
    THEN dict_update(file.content, _load_builtin_functions)
    ELSE _load_builtin_functions
library_init(file) ==
  IF file.state = "written"
    THEN dict_update(_load_builtin_functions, file.content)
    ELSE _load_builtin_functions

\* get_function: dict.get, None for a name that is not there
NoCode == "<None>"
get_function(fs, name) == IF name \in DOMAIN fs THEN fs[name] ELSE NoCode

\* get_relevant_functions, the mapping of sub-processes to function names
function_mapping(process_type) ==
  CASE process_type = "scene" ->
         <<"import_asset", "scale_asset", "position_asset", "apply_material">>
    [] process_type = "character" ->
         <<"import_asset", "scale_asset", "rotate_asset", "position_asset">>
    [] process_type = "motion" ->
         <<"set_motion", "create_walk_cycle", "create_jump_motion",
           "apply_armature_action">>
    [] process_type = "lighting" ->
         <<"setup_lighting", "create_three_point_lighting",
           "setup_hdri_lighting">>
    [] process_type = "cinematography" ->
         <<"setup_camera", "animate_camera_orbit", "animate_camera_dolly",
           "setup_camera_tracking">>
    [] OTHER -> <<>>

\* the truth value of a body in `if func_code:`
truthy_not_none(code) == code # NoCode
truthy(code) == code # NoCode /\ code # ""

\* get_relevant_functions: the text is the sequence of its blocks, a block
\* being the name of the comment line and the body under it
get_relevant_functions(fs, process_type) ==
  LET relevant_names == function_mapping(process_type)
      kept == SelectSeq(relevant_names,
                        LAMBDA n : truthy(get_function(fs, n)))
  IN  [i \in 1..Len(kept) |-> [name |-> kept[i], code |-> fs[kept[i]]]]

\* _save_custom_functions, the entries it writes
custom_functions_all(fs) == fs
custom_functions(fs) ==
  [n \in DOMAIN fs \ BuiltinNames |-> fs[n]]

\* _save_custom_functions: the document after the write; a failure of
\* makedirs or open leaves it as it was, a failure while dumping truncates it
_save_custom_functions_merge(fs, file, write) ==
  CASE write = "ok" ->
         Written(dict_update(IF file.state = "written" THEN file.content
                             ELSE NoFile.content,
                             custom_functions(fs)))
    [] write = "untouched" -> file
    [] write = "truncated" -> BrokenFile
_save_custom_functions(fs, file, write) ==
  CASE write = "ok" -> Written(custom_functions(fs))
    [] write = "untouched" -> file
    [] write = "truncated" -> BrokenFile

\* update_function: the assignment, then the save when asked for; the
\* result is the library and the document
update_function(fs, file, name, code, save, write) ==
  LET updated == dict_set(fs, name, code) IN
  [functions |-> updated,
   file |-> IF save THEN _save_custom_functions(updated, file, write)
            ELSE file]

\* agents/programmer.py update_library, the loop over the returned map: every
\* entry goes through update_function, which saves
RECURSIVE fold_entries(_, _, _, _, _)
fold_entries(fs, file, new_functions, names, write) ==
  IF names = {} THEN [functions |-> fs, file |-> file]
  ELSE LET name == CHOOSE n \in names : TRUE
           r == update_function(fs, file, name, new_functions[name], TRUE, write)
       IN  fold_entries(r.functions, r.file, new_functions, names \ {name}, write)

\* what the model call of update_library gives: an error (of the call or of
\* the parsing) or a name-to-code map
LibraryReplies ==
  {[failed |-> TRUE, new_functions |-> NoMap]} \cup
  {[failed |-> FALSE, new_functions |-> m] : m \in ReplyMaps}

\* update_library: the result is the library, the document, the value
\* returned and whether the model was called
update_library_unguarded(fs, file, suggestions, reply, write) ==
  IF reply.failed
    THEN [functions |-> fs, file |-> file, ret |-> FALSE, model_called |-> TRUE]
    ELSE LET r == fold_entries(fs, file, reply.new_functions,
                               DOMAIN reply.new_functions, write)
         IN  [functions |-> r.functions, file |-> r.file,
              ret |-> Cardinality(DOMAIN reply.new_functions) > 0,
              model_called |-> TRUE]
update_library(fs, file, suggestions, reply, write) ==
  IF suggestions = <<>>
    THEN [functions |-> fs, file |-> file, ret |-> FALSE, model_called |-> FALSE]
  ELSE IF reply.failed
    THEN [functions |-> fs, file |-> file, ret |-> FALSE, model_called |-> TRUE]
    ELSE LET r == fold_entries(fs, file, reply.new_functions,
                               DOMAIN reply.new_functions, write)
         IN  [functions |-> r.functions, file |-> r.file,
              ret |-> Cardinality(DOMAIN reply.new_functions) > 0,
              model_called |-> TRUE]

\* ------------------------------------------------------------------ key frames
\* frame rates a VideoDescription is given
FpsValues == {1, 2, 3, 5, 12, 24, 25, 30, 60}
\* _process_subprocess: total_frames = int(fps * duration), the duration
\* counted in half seconds
total_frames_of(fps, half_seconds) == (fps * half_seconds) \div 2

\* pipeline/kubrick.py _calculate_key_frames with its default num_keys:
\* step = total_frames / (num_keys - 1), frames int(i * step) + 1 for the
\* first num_keys - 1, then total_frames
_calculate_key_frames_no_last(total_frames) ==
  IF total_frames <= num_keys
    THEN [i \in 1..total_frames |-> i]
    ELSE [i \in 1..num_keys |->
            ((i - 1) * total_frames) \div (num_keys - 1) + 1]
_calculate_key_frames_zero_based(total_frames) ==
  IF total_frames <= num_keys
    THEN [i \in 1..total_frames |-> i]
    ELSE [i \in 1..num_keys |->
            IF i < num_keys
              THEN ((i - 1) * total_frames) \div (num_keys - 1)
              ELSE total_frames]
_calculate_key_frames(total_frames) ==
  IF total_frames <= num_keys
    THEN [i \in 1..total_frames |-> i]
    ELSE [i \in 1..num_keys |->
            IF i < num_keys
              THEN ((i - 1) * total_frames) \div (num_keys - 1) + 1
              ELSE total_frames]

\* ---------------------------------------------------------- generation prompt
\* knowledge/prompt.py get_script_generation_prompt: the feedback section of
\* the prompt, empty or the "Previous attempt failed" block
NoSection == [present |-> FALSE, issues |-> "", suggestions |-> <<>>]
get_script_generation_prompt_any(feedback) ==
  [feedback_section |->
     IF feedback # None
       THEN [present |-> TRUE, issues |-> feedback.issues,
             suggestions |-> feedback.suggestions]
       ELSE NoSection]
get_script_generation_prompt(feedback) ==
  [feedback_section |->
     IF feedback # None /\ ~passed(feedback)
       THEN [present |-> TRUE, issues |-> feedback.issues,
             suggestions |-> feedback.suggestions]
       ELSE NoSection]

\* feedbacks a prompt is built with: none, parsed reviews, synthesized ones
PromptFeedbacks ==
  {None, ReviewFailed(<<1, 0>>), ValidationFeedback(<<1, 0>>),
   CaptureFeedback(<<1, 0>>)}
  \cup { _parse_review(r, <<1, 0>>) : r \in ReviewReplies }

\* ------------------------------------------------------------ code extraction
\* a raw generation output as a sequence of tokens: the fence of three
\* backticks tagged python, the fence with another tag, the bare fence, text
\* and a line break
FencePython == "fence:python"
FenceOther == "fence:js"
Fence == "fence"
Fences == {Fence, FencePython, FenceOther}
Tokens == Fences \cup {"x", "y", "\n"}
Texts == UNION { [1..k -> Tokens] : k \in 0..MaxTextLen }

\* str.find on tokens: the first index from start on holding one of the
\* tokens, 0 when there is none
find(text, tokens, start) ==
  LET hits == { i \in start..Len(text) : text[i] \in tokens }
  IN  IF hits = {} THEN 0 ELSE CHOOSE i \in hits : \A j \in hits : i <= j

\* str.strip: line breaks at both ends go
RECURSIVE strip(_)
strip(text) ==
  IF text = <<>> THEN <<>>
  ELSE IF Head(text) = "\n" THEN strip(Tail(text))
  ELSE IF text[Len(text)] = "\n" THEN strip(SubSeq(text, 1, Len(text) - 1))
  ELSE text

\* agents/programmer.py _extract_code. The test for the python fence looks for
\* that fence; find of the bare fence stops at any fence, since every fence
\* begins with it;
\* after a fence of three characters the tag of the fence is part of what
\* follows; end > start asks for something between the two
_extract_code(text) ==
  IF find(text, {FencePython}, 1) # 0
    THEN LET start == find(text, {FencePython}, 1) + 1
             end == find(text, Fences, start)
         IN  IF end > start THEN strip(SubSeq(text, start, end - 1))
             ELSE strip(text)
  ELSE IF find(text, Fences, 1) # 0
    THEN LET first == find(text, Fences, 1)
             end == find(text, Fences, first + 1)
             tag == IF text[first] = FenceOther THEN <<"js">> ELSE <<>>
             inside == tag \o SubSeq(text, first + 1, end - 1)
         IN  IF end # 0 /\ inside # <<>> THEN strip(inside)
             ELSE strip(text)
  ELSE strip(text)

\* ---------------------------------------------------------------------- state
VARIABLES
  pc,                 \* the statement generate_video / _process_subprocess is at
  max_iterations,     \* KubrickPipeline.max_iterations
  sub_processes,      \* the Director's list
  idx,                \* number of sub-processes the for loop has finished
  accumulated_script, \* sequence of the scripts concatenated so far
  iteration, review_feedback, success, final_script,  \* _process_subprocess locals
  script_result,      \* the Programmer's result of this iteration
  screenshots,        \* number of frames the capture returned
  review_data,        \* review_output's local: the reply behind review_feedback
  results,            \* the result record being built
  render_result,      \* the final render's ScriptResult
  library,            \* names the function library gained from update_library
  video_file,         \* the file at output_path: absent, partial or complete
  persisted,          \* result records written by _save_results
  outcome,            \* of the call: running, returned, raised or interrupted
  interrupted,        \* where a KeyboardInterrupt arrived: no, in_try, in_save
  \* observations of the calls made
  gen_calls,          \* Programmer calls for the current sub-process
  gen_feedback,       \* the feedback argument of the latest Programmer call
  produced,           \* the feedback the latest finished iteration produced
  passed_log,         \* <<sub-process index, script>> of every PASSED review
  sub_results,        \* the records _process_subprocess returned
  calls,              \* collaborators called since decomposition began
  all_invalid,        \* every script of the current sub-process failed validation
  sp_calls,           \* capture / review calls made for the current sub-process
  render_calls, final_review_calls,
  \* the function library and the latest call made on a component
  functions,          \* BlenderFunctionLibrary.functions: name -> code
  custom_file,        \* the document at custom_functions_path
  call,               \* the latest component call: its arguments and result
  \* a second pipeline run with its own library on the same document
  functions_b,        \* the functions of the library of the second run
  saves               \* the updates a run has written to the document

loopVars == <<iteration, review_feedback, success, final_script, script_result,
              screenshots, review_data>>
obsVars == <<gen_calls, gen_feedback, produced, passed_log, sub_results, calls,
             all_invalid, sp_calls, render_calls, final_review_calls>>
vars == <<pc, max_iterations, sub_processes, idx, accumulated_script, loopVars,
          results, render_result, library, video_file, persisted, outcome,
          interrupted, obsVars, functions, custom_file, call, functions_b,
          saves>>
raceVars == <<functions_b, saves>>
unitVars == <<functions, custom_file, call, raceVars>>

NoKey == ""
ErrorEntry(phase, sub_process, error) ==
  [phase |-> phase, sub_process |-> sub_process, error |-> error]

NoReview == [status |-> "None", score |-> 0]

\* pipeline/kubrick.py generate_video, the results dictionary as initialised
InitialResults ==
  [success |-> FALSE, sub_processes |-> <<>>, total_iterations |-> 0,
   errors |-> <<>>, final_review |-> NoReview]

NoResult == ScriptResult(FALSE, EmptyScript, "None")
NoCall == [op |-> "none"]
NoReply == [passed |-> FALSE, score |-> 0, suggestions |-> <<>>, absent |-> TRUE]
Reply(r) ==
  [passed |-> r.passed, score |-> r.score, suggestions |-> r.suggestions,
   absent |-> FALSE]

\* KubrickPipeline.__init__ and the entry of generate_video: nothing done yet
Constructed ==
  /\ sub_processes = <<>>
  /\ idx = 0
  /\ accumulated_script = <<>>
  /\ iteration = 0
  /\ review_feedback = None
  /\ success = FALSE
  /\ final_script = EmptyScript
  /\ script_result = NoResult
  /\ screenshots = 0
  /\ review_data = NoReply
  /\ results = InitialResults
  /\ render_result = NoResult
  /\ library = {}
  /\ video_file = "absent"
  /\ persisted = <<>>
  /\ outcome = "running"
  /\ interrupted = "no"
  /\ gen_calls = 0
  /\ gen_feedback = None
  /\ produced = None
  /\ passed_log = <<>>
  /\ sub_results = <<>>
  /\ calls = {}
  /\ all_invalid = TRUE
  /\ sp_calls = {}
  /\ render_calls = 0
  /\ final_review_calls = 0

Init ==
  /\ pc = "decompose"
  /\ max_iterations \in 1..MaxDeepIter
  /\ Constructed
  /\ functions = _load_builtin_functions
  /\ custom_file = NoFile
  /\ call = NoCall
  /\ functions_b = _load_builtin_functions
  /\ saves = {}

\* the sub-process the for loop is at
sub_process == sub_processes[idx + 1]
\* the instant of the current iteration
now == <<idx + 1, iteration>>

\* generate_video, except Exception: the frame of _process_subprocess, if
\* any, is unwound, the error is recorded as a pipeline error and control
\* passes to the statements after the try
Raise(e) ==
  /\ results' = [results EXCEPT !.errors =
                   Append(@, ErrorEntry("pipeline", NoKey, e))]
  /\ pc' = "save_results"
  /\ iteration' = 0
  /\ review_feedback' = None
  /\ success' = FALSE
  /\ final_script' = EmptyScript
  /\ script_result' = NoResult
  /\ screenshots' = 0
  /\ review_data' = NoReply

\* ----------------------------------------------------------------- phase 1
\* director.decompose: the model call or the parsing raises, or the parsed
\* list is returned
Decompose ==
  /\ pc = "decompose"
  /\ \E o \in {"ok", "raise"} :
       IF o = "raise"
         THEN /\ Raise("decompose")
              /\ UNCHANGED sub_processes
         ELSE \E decomposition \in DecompositionsFor(max_iterations) :
                LET sps == _parse_decomposition(decomposition) IN
                /\ sub_processes' = sps
                /\ results' = [results EXCEPT !.sub_processes =
                                 [i \in 1..Len(sps) |-> sps[i].process_type]]
                /\ pc' = "save_decomposition"
                /\ UNCHANGED loopVars
  /\ UNCHANGED <<max_iterations, idx, accumulated_script, render_result,
                 library, video_file, persisted, outcome, interrupted, unitVars, obsVars>>

\* _save_decomposition writes a file inside the try; then the base script
SaveDecomposition ==
  /\ pc = "save_decomposition"
  /\ \E written \in BOOLEAN :
       IF written
         THEN /\ accumulated_script' = <<_get_base_script>>
              /\ pc' = "for"
              /\ UNCHANGED <<results, loopVars>>
         ELSE /\ Raise("save_decomposition")
              /\ UNCHANGED accumulated_script
  /\ UNCHANGED <<max_iterations, sub_processes, idx, render_result, library,
                 video_file, persisted, outcome, interrupted, unitVars, obsVars>>

\* ----------------------------------------------------------------- phase 2
\* generate_video, the for loop takes the next sub-process and
\* _process_subprocess initialises its locals
BeginSubprocess ==
  /\ pc = "for"
  /\ idx < Len(sub_processes)
  /\ iteration' = 0
  /\ review_feedback' = None
  /\ review_data' = NoReply
  /\ success' = FALSE
  /\ final_script' = EmptyScript
  /\ gen_calls' = 0
  /\ gen_feedback' = None
  /\ produced' = None
  /\ all_invalid' = TRUE
  /\ sp_calls' = {}
  /\ pc' = "while"
  /\ UNCHANGED <<max_iterations, sub_processes, idx, accumulated_script,
                 script_result, screenshots, results, render_result, library,
                 video_file, persisted, outcome, interrupted, unitVars, passed_log, sub_results,
                 calls, render_calls, final_review_calls>>

\* generate_video, the accumulation of a sub-process's script
accumulate_always(script, sub_result) == Append(script, sub_result.script)
accumulate(script, sub_result) ==
  IF sub_result.success THEN Append(script, sub_result.script) ELSE script

\* generate_video, what the for loop does with the record returned by
\* _process_subprocess; the locals of the call that returned are gone
ReturnToCaller(sub_result) ==
  /\ sub_results' = Append(sub_results, sub_result)
  /\ accumulated_script' = accumulate(accumulated_script, sub_result)
  /\ IF sub_result.success
       THEN /\ results' = [results EXCEPT !.total_iterations =
                             @ + sub_result.iterations]
       ELSE /\ results' = [results EXCEPT !.errors =
                             Append(@, ErrorEntry(NoKey, sub_process.process_type,
                                                  sub_result.error))]
  /\ idx' = idx + 1
  /\ pc' = "for"
  /\ iteration' = 0
  /\ review_feedback' = None
  /\ success' = FALSE
  /\ final_script' = EmptyScript
  /\ script_result' = NoResult
  /\ screenshots' = 0
  /\ review_data' = NoReply

\* agents/programmer.py process: generate_script returns the script, wrapped
\* in a successful ScriptResult, or re-raises the model call's exception
programmer_process(sp, attempt) ==
  ScriptResult(TRUE, Script(sp.process_type, attempt), "None")

\* _process_subprocess, the condition of the while loop
while_condition_le == iteration <= max_iterations /\ ~success
while_condition_any == iteration < max_iterations
while_condition == iteration < max_iterations /\ ~success

\* _process_subprocess, the feedback argument of programmer.process
feedback_argument_none == None
feedback_argument == review_feedback

\* _process_subprocess, top of the while loop: the Programmer is called with
\* the current feedback
Generate ==
  /\ pc = "while"
  /\ while_condition
  /\ gen_calls' = gen_calls + 1
  /\ gen_feedback' = feedback_argument
  /\ calls' = calls \cup {"programmer"}
  /\ \E o \in {"ok", "raise"} :
       IF o = "raise"
         THEN /\ Raise("generate_script")
              /\ UNCHANGED <<sub_results, accumulated_script, idx>>
         ELSE LET r == programmer_process(sub_process, iteration) IN
              IF ~r.success
                THEN ReturnToCaller([success |-> FALSE, script |-> EmptyScript,
                                     iterations |-> iteration + 1,
                                     error |-> r.error])
                ELSE /\ script_result' = r
                     /\ pc' = "validate"
                     /\ UNCHANGED <<iteration, review_feedback, success,
                                    final_script, screenshots, review_data,
                                    results,
                                    sub_results, accumulated_script, idx>>
  /\ UNCHANGED <<max_iterations, sub_processes, render_result, library,
                 video_file, persisted, outcome, interrupted, unitVars, produced, passed_log,
                 all_invalid, sp_calls, render_calls, final_review_calls>>

\* _process_subprocess, the loop has ended: the record is returned
ReturnSubprocess ==
  /\ pc = "while"
  /\ ~while_condition
  /\ ReturnToCaller([success |-> success, script |-> final_script,
                     iterations |-> iteration,
                     error |-> IF success THEN "None" ELSE "Max iterations reached"])
  /\ UNCHANGED <<max_iterations, sub_processes, render_result, library,
                 video_file, persisted, outcome, interrupted, unitVars, gen_calls, gen_feedback,
                 produced, passed_log, calls, all_invalid, sp_calls,
                 render_calls, final_review_calls>>

\* the increment that ends an iteration; the frames and the Programmer's
\* argument belong to the iteration that ends
EndIteration ==
  /\ iteration' = iteration + 1
  /\ screenshots' = 0
  /\ gen_feedback' = None
  /\ pc' = "while"

\* executor.validate_script on the accumulated script plus the new one
Validate ==
  /\ pc = "validate"
  /\ calls' = calls \cup {"executor"}
  /\ \E valid \in BOOLEAN :
       /\ all_invalid' = (all_invalid /\ ~valid)
       /\ IF ~valid
         THEN /\ review_feedback' = ValidationFeedback(now)
              /\ review_data' = NoReply
              /\ produced' = ValidationFeedback(now)
              /\ EndIteration
         ELSE /\ pc' = "capture"
              /\ UNCHANGED <<review_feedback, review_data, produced, iteration,
                             screenshots, gen_feedback>>
  /\ UNCHANGED <<max_iterations, sub_processes, idx, accumulated_script, success,
                 final_script, script_result, results, render_result, library,
                 video_file, persisted, outcome, interrupted, unitVars, gen_calls, passed_log,
                 sub_results, sp_calls, render_calls, final_review_calls>>

\* frames a capture can return: none, some, all of the key frames
CaptureCounts == {0, 1, num_keys}

\* executor.capture_screenshots; an empty list ends the iteration
Capture ==
  /\ pc = "capture"
  /\ calls' = calls \cup {"executor"}
  /\ sp_calls' = sp_calls \cup {"capture"}
  /\ \E n \in CaptureCounts :
       IF n = 0
         THEN /\ review_feedback' = CaptureFeedback(now)
              /\ review_data' = NoReply
              /\ produced' = CaptureFeedback(now)
              /\ EndIteration
         ELSE /\ screenshots' = n
              /\ pc' = "review"
              /\ UNCHANGED <<review_feedback, review_data, produced, iteration,
                             gen_feedback>>
  /\ UNCHANGED <<max_iterations, sub_processes, idx, accumulated_script, success,
                 final_script, script_result, results, render_result, library,
                 video_file, persisted, outcome, interrupted, unitVars, gen_calls, passed_log,
                 sub_results, all_invalid, render_calls, final_review_calls>>

\* agents/reviewer.py review_output: the frames and the prompt are prepared
\* before the try and an error there propagates ("raise"); an error of the
\* model call or of the parsing is turned into a FAILED feedback ("error");
\* otherwise the reply is parsed
ReviewOutcomes ==
  { [kind |-> k, reply |-> r] :
      k \in {"raise", "error", "reply"}, r \in ReviewReplies }
review_output(o, at) ==
  IF o.kind = "error" THEN ReviewFailed(at) ELSE _parse_review(o.reply, at)

\* _process_subprocess, the condition of the library update
past_threshold_ge == iteration >= LibraryUpdateThreshold
past_threshold == iteration > LibraryUpdateThreshold

\* _process_subprocess, the review and the branch on its verdict
Review ==
  /\ pc = "review"
  /\ calls' = calls \cup {"reviewer"}
  /\ sp_calls' = sp_calls \cup {"review"}
  /\ \E o \in ReviewOutcomes :
       IF o.kind = "raise"
         THEN /\ Raise("review_output")
              /\ UNCHANGED <<produced, passed_log, gen_feedback>>
         ELSE LET fb == review_output(o, now) IN
              /\ review_feedback' = fb
              /\ review_data' = IF o.kind = "reply" THEN Reply(o.reply) ELSE NoReply
              /\ produced' = fb
              /\ UNCHANGED <<results, script_result>>
              /\ IF passed(fb)
                   THEN /\ final_script' = script_result.script
                        /\ success' = TRUE
                        /\ passed_log' = Append(passed_log,
                                                <<idx + 1, script_result.script>>)
                        /\ EndIteration
                   ELSE /\ UNCHANGED <<final_script, success, passed_log>>
                        /\ IF past_threshold
                             THEN /\ pc' = "update_library"
                                  /\ UNCHANGED <<iteration, screenshots, gen_feedback>>
                             ELSE EndIteration
  /\ UNCHANGED <<max_iterations, sub_processes, idx, accumulated_script,
                 render_result, library, video_file, persisted, outcome, interrupted, unitVars,
                 gen_calls, sub_results, all_invalid, render_calls,
                 final_review_calls>>

\* agents/programmer.py update_library: nothing without suggestions; an
\* error of the model call or of the parsing is swallowed; otherwise every
\* name of the returned map is put into the library
UpdateLibrary ==
  /\ pc = "update_library"
  /\ IF review_feedback.suggestions = <<>>
       THEN UNCHANGED <<library, calls>>
       ELSE /\ calls' = calls \cup {"programmer"}
            /\ \E failed \in BOOLEAN, new_functions \in NewFunctionMaps :
                 library' = IF failed THEN library ELSE library \cup new_functions
  /\ EndIteration
  /\ UNCHANGED <<max_iterations, sub_processes, idx, accumulated_script,
                 review_feedback, review_data, success, final_script,
                 script_result, results, render_result, video_file, persisted, outcome, interrupted, unitVars, gen_calls,
                 produced, passed_log, sub_results, all_invalid, sp_calls,
                 render_calls, final_review_calls>>

\* ----------------------------------------------------------------- phase 3
\* _render_final_video and the branch on its result
Render ==
  /\ pc = "for"
  /\ idx = Len(sub_processes)
  /\ render_calls' = render_calls + 1
  /\ calls' = calls \cup {"executor"}
  /\ \E o \in RenderOutcomes :
       LET r == execute_script(o) IN
       /\ render_result' = r
       /\ video_file' = o.file
       /\ IF r.success
            THEN /\ results' = [results EXCEPT !.success = TRUE]
                 /\ pc' = "final_review"
            ELSE /\ results' = [results EXCEPT !.errors =
                                  Append(@, ErrorEntry("rendering", NoKey, r.error))]
                 /\ pc' = "save_results"
  /\ UNCHANGED <<max_iterations, sub_processes, idx, accumulated_script, loopVars,
                 library, persisted, outcome, interrupted, unitVars, gen_calls, gen_feedback, produced,
                 passed_log, sub_results, all_invalid, sp_calls,
                 final_review_calls>>

\* agents/reviewer.py review_final_video: no frame is read from a file that
\* is not there; otherwise the frames go to review_output
FinalReview ==
  /\ pc = "final_review"
  /\ final_review_calls' = final_review_calls + 1
  /\ calls' = calls \cup {"reviewer"}
  /\ \E o \in ReviewOutcomes :
       LET at == <<Len(sub_processes) + 1, 0>> IN
       IF video_file # "complete"
         THEN /\ results' = [results EXCEPT !.final_review =
                               [status |-> VideoLoadFailed(at).status,
                                score |-> VideoLoadFailed(at).score]]
              /\ pc' = "save_results"
              /\ UNCHANGED loopVars
         ELSE IF o.kind = "raise"
           THEN Raise("review_final_video")
           ELSE /\ results' = [results EXCEPT !.final_review =
                                 [status |-> review_output(o, at).status,
                                  score |-> review_output(o, at).score]]
                /\ pc' = "save_results"
                /\ UNCHANGED loopVars
  /\ UNCHANGED <<max_iterations, sub_processes, idx, accumulated_script,
                 render_result, library, video_file, persisted, outcome, interrupted, unitVars,
                 gen_calls, gen_feedback, produced, passed_log, sub_results,
                 all_invalid, sp_calls, render_calls>>

\* generate_video, after the try: _save_results writes the record and the
\* record is returned; a failed write propagates to the caller
SaveResults ==
  /\ pc = "save_results"
  /\ \E written \in BOOLEAN :
       /\ persisted' = IF written THEN Append(persisted, results) ELSE persisted
       /\ outcome' = IF written THEN "returned" ELSE "raised"
  /\ pc' = "done"
  /\ UNCHANGED <<max_iterations, sub_processes, idx, accumulated_script, loopVars,
                 results, render_result, library, video_file, interrupted,
                 obsVars, unitVars>>

\* generate_video, the handler of the try: Exception and its subclasses
caught_all(e) == TRUE
caught(e) == e = "Exception"

\* main.py, the process exits after an interrupt: nothing of the run
\* survives but its files
ProcessExits ==
  /\ pc' = "done"
  /\ outcome' = "interrupted"
  /\ sub_processes' = <<>>
  /\ idx' = 0
  /\ accumulated_script' = <<>>
  /\ iteration' = 0
  /\ review_feedback' = None
  /\ success' = FALSE
  /\ final_script' = EmptyScript
  /\ script_result' = NoResult
  /\ screenshots' = 0
  /\ review_data' = NoReply
  /\ results' = InitialResults
  /\ render_result' = NoResult
  /\ gen_calls' = 0
  /\ gen_feedback' = None
  /\ produced' = None
  /\ passed_log' = <<>>
  /\ sub_results' = <<>>
  /\ calls' = {}
  /\ all_invalid' = TRUE
  /\ sp_calls' = {}
  /\ render_calls' = 0
  /\ final_review_calls' = 0

\* a KeyboardInterrupt (main.py) arrives while generate_video runs. Inside the
\* try it passes the handler, which takes Exception only, and leaves
\* generate_video before _save_results. Inside _save_results the record is
\* written or not. An interrupted render may leave a partial file.
KeyboardInterrupt ==
  /\ pc # "done" /\ interrupted = "no"
  /\ IF pc = "save_results"
       THEN /\ interrupted' = "in_save"
            /\ \E written \in BOOLEAN :
                 persisted' = IF written THEN Append(persisted, results)
                              ELSE persisted
            /\ ProcessExits
            /\ UNCHANGED video_file
       ELSE /\ interrupted' = "in_try"
            /\ IF caught("KeyboardInterrupt")
                 THEN /\ Raise("KeyboardInterrupt")
                      /\ UNCHANGED <<sub_processes, idx, accumulated_script,
                                     render_result, video_file, persisted,
                                     outcome, obsVars>>
                 ELSE /\ ProcessExits
                      /\ \E file \in IF pc = "for" /\ idx = Len(sub_processes)
                                       THEN {"absent", "partial"}
                                       ELSE {video_file} : video_file' = file
                      /\ UNCHANGED persisted
  /\ UNCHANGED <<max_iterations, library, unitVars>>

Next ==
  \/ Decompose
  \/ SaveDecomposition
  \/ BeginSubprocess
  \/ Generate
  \/ ReturnSubprocess
  \/ Validate
  \/ Capture
  \/ Review
  \/ UpdateLibrary
  \/ Render
  \/ FinalReview
  \/ SaveResults
  \/ KeyboardInterrupt

Spec == Init /\ [][Next]_vars

\* ------------------------------------------------------- component calls
\* The components called one at a time on a library built by __init__: each
\* action is one call, `call` keeps its arguments and its result.  The two
\* functions that do not read the library are called first.
InitialCustomFiles ==
  {NoFile, BrokenFile, Written([n \in {"fix_scene"} |-> "new"]),
   Written([n \in {"import_asset"} |-> "new"])}

UnitInit ==
  /\ pc = "unit"
  /\ max_iterations = 1
  /\ Constructed
  /\ custom_file \in InitialCustomFiles
  /\ functions = library_init(custom_file)
  /\ call = NoCall
  /\ functions_b = library_init(custom_file)
  /\ saves = {}

pipelineVars == <<pc, max_iterations, sub_processes, idx, accumulated_script,
                  loopVars, results, render_result, library, video_file,
                  persisted, outcome, interrupted, obsVars>>

\* _process_subprocess, the key frames of a preview
CallCalculateKeyFrames ==
  /\ pc = "unit" /\ call = NoCall
  /\ \E fps \in FpsValues, half_seconds \in 1..MaxHalfSeconds :
       LET total_frames == total_frames_of(fps, half_seconds) IN
       call' = [op |-> "_calculate_key_frames", fps |-> fps,
                half_seconds |-> half_seconds, total_frames |-> total_frames,
                ret |-> _calculate_key_frames(total_frames)]
  /\ UNCHANGED <<pipelineVars, raceVars, functions, custom_file>>

\* director._parse_decomposition on a raw decomposition
CallParseDecomposition ==
  /\ pc = "unit" /\ call = NoCall
  /\ \E decomposition \in RawDecompositions :
       call' = [op |-> "_parse_decomposition", decomposition |-> decomposition,
                ret |-> _parse_decomposition(decomposition)]
  /\ UNCHANGED <<pipelineVars, raceVars, functions, custom_file>>

\* library.get_relevant_functions for a sub-process or any other value
CallGetRelevantFunctions ==
  /\ pc = "unit"
  /\ \E process_type \in RawKeys :
       call' = [op |-> "get_relevant_functions", process_type |-> process_type,
                ret |-> get_relevant_functions(functions, process_type)]
  /\ UNCHANGED <<pipelineVars, raceVars, functions, custom_file>>

\* library.update_function
CallUpdateFunction ==
  /\ pc = "unit"
  /\ \E name \in UpdateNames, code \in Codes, save \in BOOLEAN,
        write \in WriteOutcomes :
       LET r == update_function(functions, custom_file, name, code, save, write)
       IN  /\ functions' = r.functions
           /\ custom_file' = r.file
           /\ call' = [op |-> "update_function", name |-> name, code |-> code,
                       save |-> save, write |-> write, raised |-> FALSE]
  /\ UNCHANGED <<pipelineVars, raceVars>>

\* programmer.update_library with a feedback's suggestions
CallUpdateLibrary ==
  /\ pc = "unit"
  /\ \E suggestions \in {<<>>, <<"s">>}, reply \in LibraryReplies,
        write \in WriteOutcomes :
       LET r == update_library(functions, custom_file, suggestions, reply, write)
       IN  /\ functions' = r.functions
           /\ custom_file' = r.file
           /\ call' = [op |-> "update_library", suggestions |-> suggestions,
                       reply |-> reply, write |-> write, ret |-> r.ret,
                       model_called |-> r.model_called, raised |-> FALSE]
  /\ UNCHANGED <<pipelineVars, raceVars>>

\* prompts.get_script_generation_prompt with a feedback or none
CallGetScriptGenerationPrompt ==
  /\ pc = "unit" /\ call = NoCall
  /\ \E feedback \in PromptFeedbacks :
       call' = [op |-> "get_script_generation_prompt", feedback |-> feedback,
                ret |-> get_script_generation_prompt(feedback)]
  /\ UNCHANGED <<pipelineVars, raceVars, functions, custom_file>>

\* programmer._extract_code on a raw output
CallExtractCode ==
  /\ pc = "unit" /\ call = NoCall
  /\ \E text \in Texts :
       call' = [op |-> "_extract_code", text |-> text,
                ret |-> _extract_code(text)]
  /\ UNCHANGED <<pipelineVars, raceVars, functions, custom_file>>

\* a new BlenderFunctionLibrary on the same custom_functions_path; the
\* update that preceded it, if the latest call was one, is kept
CallLibraryInit ==
  /\ pc = "unit"
  /\ functions' = library_init(custom_file)
  /\ call' = [op |-> "__init__",
              prev |-> IF call.op = "update_function" THEN call ELSE NoCall]
  /\ UNCHANGED <<pipelineVars, raceVars, custom_file>>

UnitNext ==
  \/ CallCalculateKeyFrames
  \/ CallParseDecomposition
  \/ CallGetScriptGenerationPrompt
  \/ CallExtractCode
  \/ CallLibraryInit
  \/ CallGetRelevantFunctions
  \/ CallUpdateFunction
  \/ CallUpdateLibrary

UnitSpec == UnitInit /\ [][UnitNext]_vars

\* ------------------------------------------------- two runs, one document
\* Two KubrickPipeline objects, each with the BlenderFunctionLibrary its
\* constructor makes on output_dir / custom_functions.json.  Run A holds
\* functions, run B holds functions_b; the document is shared.
Runs == {"A", "B"}
RaceNames == {"setup_lighting", "fix_scene"}
functions_of(run) == IF run = "A" THEN functions ELSE functions_b

RaceInit ==
  /\ pc = "race"
  /\ max_iterations = 1
  /\ Constructed
  /\ custom_file \in {NoFile, Written([n \in {"fix_scene"} |-> "new"])}
  /\ functions = library_init(custom_file)
  /\ functions_b = library_init(custom_file)
  /\ call = NoCall
  /\ saves = {}

\* a run is started anew: KubrickPipeline.__init__ makes its library from
\* the document as it is now
RunStarts(run) ==
  /\ pc = "race"
  /\ IF run = "A"
       THEN functions' = library_init(custom_file) /\ UNCHANGED functions_b
       ELSE functions_b' = library_init(custom_file) /\ UNCHANGED functions
  /\ call' = [op |-> "__init__", run |-> run]
  /\ UNCHANGED <<pipelineVars, custom_file, saves>>

\* a run calls update_function on its library
RunUpdates(run) ==
  /\ pc = "race"
  /\ \E name \in RaceNames, save \in BOOLEAN, write \in WriteOutcomes :
       LET r == update_function(functions_of(run), custom_file, name, "new",
                                save, write)
       IN  /\ IF run = "A"
                THEN functions' = r.functions /\ UNCHANGED functions_b
                ELSE functions_b' = r.functions /\ UNCHANGED functions
           /\ custom_file' = r.file
           /\ call' = [op |-> "update_function", run |-> run, name |-> name,
                       save |-> save, write |-> write]
           /\ saves' = IF save /\ write = "ok"
                         THEN saves \cup {[run |-> run, name |-> name]}
                         ELSE saves
  /\ UNCHANGED pipelineVars

RaceNext == \E run \in Runs : RunStarts(run) \/ RunUpdates(run)

RaceSpec == RaceInit /\ [][RaceNext]_vars

\* ===================================================================== claims
ErrorIndexes == 1..Len(results.errors)
HasError(e) == \E k \in ErrorIndexes : results.errors[k].error = e
Finished == pc = "done" /\ interrupted = "no"
InIteration == pc \in {"validate", "capture", "review", "update_library"}

\* C1: for every sub-process the Programmer is called at most max_iterations
\* times; a sub-process that _process_subprocess reports as not accepted
\* reports exactly max_iterations iterations and an empty script, and no
\* script of it is in the accumulated script.
C1_IterationBound ==
  /\ gen_calls <= max_iterations
  /\ \A i \in 1..Len(sub_results) :
       ~sub_results[i].success =>
         /\ sub_results[i].iterations = max_iterations
         /\ sub_results[i].script = EmptyScript
         /\ \A k \in 1..Len(accumulated_script) :
              accumulated_script[k].sp # sub_processes[i].process_type

C1_Witness ==
  /\ max_iterations >= 2
  /\ gen_calls = max_iterations
  /\ Len(sub_results) >= 1
  /\ ~sub_results[Len(sub_results)].success

\* C2: wherever the accumulated script is in use (validation and preview of
\* a sub-process, the final render) it is the base script followed by the
\* scripts whose review passed, of the sub-processes finished so far, in
\* taxonomy order, and by nothing else.
TaxonomyIndex(name) == CHOOSE i \in 1..Len(SubProcess) : SubProcess[i] = name
AcceptedSoFar ==
  LET sel == SelectSeq(passed_log, LAMBDA e : e[1] <= idx)
  IN  [k \in 1..Len(sel) |-> sel[k][2]]
C2_AccumulatedScript ==
  (pc \in {"for", "while", "validate", "capture", "review", "update_library"}
     \/ render_calls > 0) =>
    /\ accumulated_script = <<_get_base_script>> \o AcceptedSoFar
    /\ \A k, l \in 2..Len(accumulated_script) :
         k < l => TaxonomyIndex(accumulated_script[k].sp)
                    < TaxonomyIndex(accumulated_script[l].sp)

C2_Witness ==
  /\ render_calls = 1
  /\ Len(accumulated_script) >= 2
  /\ \E i \in 1..Len(sub_results) : ~sub_results[i].success
  /\ \E i \in 1..Len(sub_results) :
       sub_results[i].success /\ sub_results[i].iterations >= 2

\* C3: a failure of the Programmer in an iteration ends that sub-process as
\* failed, is recorded as an error entry of the sub-process and never as a
\* pipeline error, and the run goes on to the remaining sub-processes and
\* the final render.
C3_GenerationFailureIsLocal ==
  HasError("generate_script") =>
    /\ \A k \in ErrorIndexes :
         results.errors[k].error = "generate_script" =>
           /\ results.errors[k].phase # "pipeline"
           /\ results.errors[k].sub_process # NoKey
    /\ Finished => render_calls = 1 /\ Len(sub_results) = Len(sub_processes)

\* C4: once the Director has returned its list and the list is on record,
\* every sub-process of it is processed, in order, and the final render is
\* attempted exactly once, after the last of them, however many of them
\* failed.
C4_EverySubprocessThenRender ==
  /\ render_calls <= 1
  /\ render_calls = 1 => idx = Len(sub_processes)
  /\ \A i \in 1..Len(sub_results) : i <= Len(sub_processes)
  /\ (Finished /\ ~HasError("decompose") /\ ~HasError("save_decomposition")) =>
       /\ Len(sub_results) = Len(sub_processes)
       /\ render_calls = 1

\* C5: the Programmer's call of iteration 0 receives no feedback, and its
\* call of iteration i > 0 receives the feedback that iteration i-1 of the
\* same sub-process produced, a FAILED one of score 0 when that iteration
\* ended at the validation or at the capture.
C5_FeedbackThreading ==
  InIteration =>
    /\ gen_calls = iteration + 1
    /\ iteration = 0 => gen_feedback = None
    /\ iteration > 0 =>
         /\ pc # "update_library" => gen_feedback = produced
         /\ gen_feedback.reviewed_at = <<idx + 1, iteration - 1>>
         /\ gen_feedback.status \in ReviewStatus
         /\ gen_feedback.issues \in {"Script syntax error", "Failed to render preview"}
              => gen_feedback.status = FAILED /\ gen_feedback.score = 0

C5_Witness ==
  /\ pc = "validate"
  /\ idx >= 1
  /\ iteration >= 1
  /\ gen_feedback.status = NEEDS_REVISION

\* C6: the status of a parsed review is PASSED iff the reply's passed flag
\* is set and its score is at least 0.8, else NEEDS_REVISION iff the score
\* is at least 0.5, else FAILED; the sub-process is accepted iff the status
\* is PASSED, and NEEDS_REVISION and FAILED take the same next step.
C6_Expected(r) ==
  IF r.passed /\ r.score >= 80 THEN PASSED
  ELSE IF r.score >= 50 THEN NEEDS_REVISION
  ELSE FAILED
C6_ReviewStatus ==
  [][ (pc = "review" /\ pc' # "save_results" /\ interrupted' = "no") =>
        /\ ~review_data'.absent =>
             review_feedback'.status = C6_Expected(review_data')
        /\ success' <=> (review_feedback'.status = PASSED)
        /\ review_feedback'.status = PASSED =>
             pc' = "while" /\ iteration' = iteration + 1
        /\ review_feedback'.status # PASSED =>
             IF iteration > LibraryUpdateThreshold
               THEN pc' = "update_library" /\ iteration' = iteration
               ELSE pc' = "while" /\ iteration' = iteration + 1
    ]_vars

C6_Witness ==
  /\ pc = "while"
  /\ ~review_data.absent
  /\ review_data.passed
  /\ review_feedback.status = NEEDS_REVISION
  /\ ~success

\* C7: when the Director fails no collaborator is called and no render is
\* attempted, and generate_video returns and persists a record with success
\* false and a pipeline error; and a run that ends before its first
\* sub-process was attempted ended so because the Director failed.
C7_OnlyDecompositionAborts ==
  /\ HasError("decompose") =>
       /\ calls = {} /\ render_calls = 0
       /\ Finished =>
            /\ outcome = "returned"
            /\ persisted = <<results>>
            /\ ~results.success
            /\ \E k \in ErrorIndexes : results.errors[k].phase = "pipeline"
  /\ (pc \in {"save_results", "done"} /\ calls = {} /\ render_calls = 0) =>
       HasError("decompose")

\* C8: the success flag is true iff the final render reported success; after
\* a successful render the final review was made once and its status and
\* score are in the record; after a failed render no final review was made
\* and the record holds a rendering error with the render's error.
C8_SuccessIsRenderSuccess ==
  pc \in {"save_results", "done"} =>
    /\ results.success <=> (render_calls = 1 /\ render_result.success)
    /\ (render_calls = 1 /\ render_result.success) =>
         /\ final_review_calls = 1
         /\ results.final_review.status \in ReviewStatus
    /\ (render_calls = 1 /\ ~render_result.success) =>
         /\ final_review_calls = 0
         /\ \E k \in ErrorIndexes :
              /\ results.errors[k].phase = "rendering"
              /\ results.errors[k].error = render_result.error

\* C9: a record with success true names an output path at which the render
\* left the complete video, and a failed render is not reported as success.
C9_SuccessMeansVideo ==
  Finished =>
    /\ results.success => video_file = "complete"
    /\ (render_calls = 1 /\ ~render_result.success) => ~results.success

\* C10: no error inside review_output or review_final_video reaches the
\* controller as an exception; it comes back as a FAILED feedback of score 0.
C10_ReviewerNeverRaises ==
  /\ ~HasError("review_output")
  /\ ~HasError("review_final_video")


\* the record of the sub-process the for loop has just finished
JustReturned == pc = "for" /\ idx > 0
LastResult == sub_results[idx]
LastType == sub_processes[idx].process_type
ScriptsOf(name) ==
  { k \in 1..Len(accumulated_script) : accumulated_script[k].sp = name }

\* C11: while every script generated for a sub-process has failed
\* validation, neither the capture nor the Reviewer has been called for it,
\* the iterations done equal the Programmer calls finished, and the active
\* feedback is the synthesized FAILED feedback of score 0 of the latest
\* iteration; when all max_iterations scripts failed validation the record
\* returned is failed, with "Max iterations reached" and max_iterations
\* iterations, and the error is recorded under the sub-process.
C11_AllInvalid ==
  /\ (pc \in {"while", "validate"} /\ all_invalid) =>
        /\ sp_calls = {}
        /\ gen_calls = IF pc = "while" THEN iteration ELSE iteration + 1
        /\ iteration > 0 =>
              /\ review_feedback = ValidationFeedback(<<idx + 1, iteration - 1>>)
              /\ review_feedback.status = FAILED
              /\ review_feedback.score = 0
  /\ (JustReturned /\ all_invalid) =>
        /\ sp_calls = {}
        /\ LastResult = [success |-> FALSE, script |-> EmptyScript,
                         iterations |-> max_iterations,
                         error |-> "Max iterations reached"]
        /\ results.errors[Len(results.errors)] =
             ErrorEntry(NoKey, LastType, "Max iterations reached")
C11_Witness ==
  /\ JustReturned /\ all_invalid
  /\ max_iterations >= 2
  /\ LastResult.iterations = max_iterations

\* C12: the iteration count a sub-process reports is the number of
\* Programmer calls made for it; once a review has passed no further call
\* is made for the sub-process, the accepted script is the one of the last
\* call, and it is the only script of the sub-process in the accumulated
\* script.
C12_CountIsGeneratorCalls ==
  /\ JustReturned => LastResult.iterations = gen_calls
  /\ success =>
        /\ pc = "while" /\ ~while_condition
        /\ gen_calls = iteration
        /\ final_script = Script(sub_process.process_type, iteration - 1)
  /\ (JustReturned /\ LastResult.success) =>
        /\ LastResult.script = Script(LastType, LastResult.iterations - 1)
        /\ ScriptsOf(LastType) = {Len(accumulated_script)}
        /\ accumulated_script[Len(accumulated_script)] = LastResult.script
C12_Witness ==
  /\ JustReturned /\ LastResult.success
  /\ LastResult.iterations = 3
  /\ gen_calls = 3

RECURSIVE SumIterations(_)
SumIterations(rs) ==
  IF rs = <<>> THEN 0 ELSE rs[1].iterations + SumIterations(Tail(rs))

\* C14: when a run is interrupted while generate_video is inside its try
\* (decomposition, a sub-process iteration, the final render, the final
\* review), no result record of the run has been written.
C14_InterruptPersistsNothing ==
  interrupted = "in_try" => persisted = <<>>
C14_Witness ==
  /\ interrupted = "in_try" /\ outcome = "interrupted"
  /\ video_file = "partial"

\* C19: every ReviewFeedback the controller holds, and the final review it
\* records, has a status among PASSED, FAILED, NEEDS_REVISION and a score
\* within [0,1] (0..100 hundredths).
C19_FeedbackWellFormed ==
  /\ review_feedback # None =>
        /\ review_feedback.status \in ReviewStatus
        /\ review_feedback.score \in 0..100
  /\ results.final_review # NoReview =>
        /\ results.final_review.status \in ReviewStatus
        /\ results.final_review.score \in 0..100

\* C20: the total iteration count of the result is the sum of the
\* iterations of every sub-process processed, accepted or failed.
C20_TotalIterations ==
  results.total_iterations = SumIterations(sub_results)

\* C13 (as stated): for fps 24 and a duration of 2 s the total frame count is
\* 48 and _calculate_key_frames yields exactly the frames 1, 12, 24, 36, 48.
C13_KeyFramesAsStated ==
  (call.op = "_calculate_key_frames" /\ call.fps = 24 /\ call.half_seconds = 4) =>
    /\ call.total_frames = 48
    /\ call.ret = <<1, 12, 24, 36, 48>>

\* C13 (amended): for fps 24 and a duration of 2 s the total frame count is
\* 48 and _calculate_key_frames yields exactly the frames 1, 13, 25, 37, 48.
C13_KeyFrames ==
  (call.op = "_calculate_key_frames" /\ call.fps = 24 /\ call.half_seconds = 4) =>
    /\ call.total_frames = 48
    /\ call.ret = <<1, 13, 25, 37, 48>>
C13_Witness ==
  /\ call.op = "_calculate_key_frames"
  /\ call.fps = 24 /\ call.half_seconds = 4
  /\ Len(call.ret) = num_keys

\* C15: the list _parse_decomposition returns holds exactly one entry for
\* each taxonomy key present in the raw decomposition and none for any other
\* key, in taxonomy order, and the order field of an entry is the index of
\* its category in the taxonomy (0..4), whatever its position in the list.
TaxonomyKeys == { SubProcess[i] : i \in 1..Len(SubProcess) }
C15_ParseDecomposition ==
  call.op = "_parse_decomposition" =>
    LET out == call.ret
        present == call.decomposition \cap TaxonomyKeys
    IN  /\ { out[i].process_type : i \in 1..Len(out) } = present
        /\ Len(out) = Cardinality(present)
        /\ \A i \in 1..Len(out) :
             out[i].order = TaxonomyIndex(out[i].process_type) - 1
        /\ \A i, j \in 1..Len(out) : i < j => out[i].order < out[j].order
C15_Witness ==
  /\ call.op = "_parse_decomposition"
  /\ call.decomposition = {"props", "lighting", "character"}
  /\ Len(call.ret) = 2
  /\ call.ret[2].order = 3

\* C16 (as stated): get_relevant_functions returns, for every sub-process
\* category and every library content, one block (name comment and body) for
\* each name of the category's list that the library holds, in the list's
\* order, and nothing else; a value without a mapping gives the empty text.
C16_Blocks(fs, names) ==
  [i \in 1..Len(names) |-> [name |-> names[i], code |-> fs[names[i]]]]
C16_RelevantFunctionsAsStated ==
  call.op = "get_relevant_functions" =>
    /\ call.ret = C16_Blocks(functions,
                    SelectSeq(function_mapping(call.process_type),
                              LAMBDA n : n \in DOMAIN functions))
    /\ call.process_type \notin TaxonomyKeys => call.ret = <<>>

\* C16 (amended): get_relevant_functions returns one block for each name of
\* the category's list that the library holds with a body that is not empty,
\* in the list's order, and nothing else; a mapped name that is absent or
\* whose body is empty is skipped, and a value without a mapping gives the
\* empty text.
C16_RelevantFunctions ==
  call.op = "get_relevant_functions" =>
    /\ call.ret = C16_Blocks(functions,
                    SelectSeq(function_mapping(call.process_type),
                              LAMBDA n : /\ n \in DOMAIN functions
                                         /\ functions[n] # ""))
    /\ call.process_type \notin TaxonomyKeys => call.ret = <<>>
C16_Witness ==
  /\ call.op = "get_relevant_functions" /\ call.process_type = "lighting"
  /\ "setup_lighting" \in DOMAIN functions
  /\ functions["setup_lighting"] = "new"
  /\ call.ret = <<[name |-> "setup_lighting", code |-> "new"]>>

\* C17: after update_function(name, code) with saving, get_function(name)
\* is code and nothing was raised, whatever the write did; when the write
\* succeeded the document holds exactly the entries of the library whose
\* names are not built in.
C17_UpdateFunction ==
  call.op = "update_function" =>
    /\ get_function(functions, call.name) = call.code
    /\ ~call.raised
    /\ (call.save /\ call.write = "ok") =>
          /\ custom_file.state = "written"
          /\ DOMAIN custom_file.content = DOMAIN functions \ BuiltinNames
          /\ \A n \in DOMAIN custom_file.content :
               custom_file.content[n] = functions[n]
C17_Witness ==
  /\ call.op = "update_function" /\ call.save /\ call.write = "ok"
  /\ call.name = "import_asset" /\ call.code = "new"
  /\ DOMAIN custom_file.content = {"fix_scene", "setup_lighting"}

\* C18: update_library returns false, without calling the model and without
\* changing the library, for a feedback without suggestions; otherwise it
\* calls the model, puts every entry of the returned map into the library
\* and returns true iff the map has an entry; when the call or the parsing
\* fails it returns false, leaves the library alone and raises nothing.
C18_UpdateLibrary ==
  [][ call'.op = "update_library" =>
        /\ ~call'.raised
        /\ call'.suggestions = <<>> =>
              /\ ~call'.model_called /\ ~call'.ret
              /\ functions' = functions /\ custom_file' = custom_file
        /\ call'.suggestions # <<>> =>
              /\ call'.model_called
              /\ IF call'.reply.failed
                   THEN ~call'.ret /\ functions' = functions
                   ELSE /\ functions' = dict_update(functions,
                                                     call'.reply.new_functions)
                        /\ call'.ret <=> (call'.reply.new_functions # NoMap)
    ]_vars
C18_Witness ==
  /\ call.op = "update_library" /\ call.ret
  /\ DOMAIN call.reply.new_functions = UpdateNames
  /\ functions["setup_lighting"] = "new"

\* C21: in an iteration whose script passed validation the Reviewer is
\* called iff the capture returned at least one frame, a partial set
\* included; an empty set installs the synthesized FAILED feedback of score
\* 0 with the issue "Failed to render preview", skips the review, consumes
\* the iteration and goes on with the next one.
C21_CaptureDecidesReview ==
  [][ (pc = "capture" /\ interrupted' = "no") =>
        /\ (pc' = "review") <=> (screenshots' >= 1)
        /\ pc' = "review" =>
              /\ iteration' = iteration
              /\ review_feedback' = review_feedback
        /\ pc' # "review" =>
              /\ pc' = "while"
              /\ iteration' = iteration + 1
              /\ sp_calls' = sp_calls \cup {"capture"}
              /\ review_feedback'.status = FAILED
              /\ review_feedback'.score = 0
              /\ review_feedback'.issues = "Failed to render preview"
              /\ review_feedback'.reviewed_at = now
              /\ ~success'
    ]_vars
C21_Witness ==
  /\ pc = "review"
  /\ screenshots = 1
  /\ iteration = 1
  /\ review_feedback.issues = "Failed to render preview"

\* C22: update_library is attempted only in an iteration whose review did
\* not pass (not after a failed validation, an empty capture or a passing
\* review) and whose index is greater than the threshold; it is attempted
\* once, and whatever it does the iteration ends as it would have without
\* it: the counter goes up by one, and the feedback, the accumulated script
\* and the acceptance stay as they were.
C22_LibraryUpdateSideChannel ==
  [][ /\ pc' = "update_library" =>
           /\ pc = "review"
           /\ iteration' > LibraryUpdateThreshold
           /\ "review" \in sp_calls'
           /\ review_feedback' = produced'
           /\ review_feedback'.status \in {FAILED, NEEDS_REVISION}
           /\ review_feedback'.reviewed_at = <<idx' + 1, iteration'>>
           /\ review_feedback' \notin {ValidationFeedback(now), CaptureFeedback(now)}
           /\ ~success'
      /\ (pc = "update_library" /\ interrupted' = "no") =>
           /\ pc' = "while"
           /\ iteration' = iteration + 1
           /\ review_feedback' = review_feedback
           /\ accumulated_script' = accumulated_script
           /\ success' = success
           /\ final_script' = final_script
    ]_vars
C22_Witness ==
  /\ pc = "while"
  /\ iteration = LibraryUpdateThreshold + 2
  /\ library # {}
  /\ ~success

HasPhase(p) == \E k \in ErrorIndexes : results.errors[k].phase = p
CollaboratorRaised ==
  \/ HasError("decompose") \/ HasError("generate_script")
  \/ HasError("review_output") \/ HasError("review_final_video")

\* C29: in every result of generate_video, success true implies that the
\* error list has no entry of phase "rendering" and none of phase
\* "pipeline".
C29_SuccessHasNoRunError ==
  (pc \in {"save_results", "done"} /\ results.success) =>
    /\ ~HasPhase("rendering")
    /\ ~HasPhase("pipeline")

\* C30: when every Decomposer, Generator, Executor, Reviewer and
\* library-update call has returned, the run that has ended has persisted
\* and returned its result, every sub-process of the (at most 5) has ended
\* accepted or failed, and at most (number of sub-processes) x
\* max_iterations Generator calls were made.
C30_RunEndsWithResult ==
  (pc = "done" /\ interrupted = "no" /\ ~CollaboratorRaised) =>
    /\ outcome = "returned"
    /\ persisted = <<results>>
    /\ Len(sub_processes) <= Len(SubProcess)
    /\ Len(sub_results) = Len(sub_processes)
    /\ SumIterations(sub_results) <= Len(sub_processes) * max_iterations

\* C23: for a total frame count T of at least 1, _calculate_key_frames
\* returns every frame 1..T when T <= 5, and otherwise exactly 5 frame
\* indices, strictly increasing, all within 1..T, the first 1 and the last
\* T; for T = 0 it returns the empty list.
C23_KeyFrameSampling ==
  call.op = "_calculate_key_frames" =>
    LET T == call.total_frames
        ret == call.ret
    IN  /\ T = 0 => ret = <<>>
        /\ (1 <= T /\ T <= num_keys) => ret = [i \in 1..T |-> i]
        /\ T > num_keys =>
              /\ Len(ret) = num_keys
              /\ \A i \in 1..(num_keys - 1) : ret[i] < ret[i + 1]
              /\ \A i \in 1..num_keys : ret[i] \in 1..T
              /\ ret[1] = 1
              /\ ret[num_keys] = T
C23_Witness ==
  /\ call.op = "_calculate_key_frames"
  /\ call.total_frames = num_keys + 1
  /\ call.ret = <<1, 2, 4, 5, 6>>

\* C24: the generation prompt holds the previous-attempt-failed block, with
\* the issues and suggestions of the feedback, exactly when a feedback is
\* given and its status is not PASSED; without a feedback or with a PASSED
\* one the block is absent.
C24_FeedbackSection ==
  call.op = "get_script_generation_prompt" =>
    LET fb == call.feedback
        section == call.ret.feedback_section
    IN  /\ section.present <=> (fb # None /\ fb.status # PASSED)
        /\ section.present =>
              /\ section.issues = fb.issues
              /\ section.suggestions = fb.suggestions
        /\ ~section.present => section = NoSection
C24_Witness ==
  /\ call.op = "get_script_generation_prompt"
  /\ call.feedback.status = NEEDS_REVISION
  /\ call.feedback.suggestions # <<>>
  /\ call.ret.feedback_section.present
  /\ call.ret.feedback_section.suggestions = call.feedback.suggestions

\* C25: _extract_code returns the content of the first fenced block of the
\* raw output, whatever the tag of its fence and whatever fenced blocks
\* follow it, when the output has a fenced block (a fence, something, the
\* bare fence that closes it), and the trimmed raw output when it has no
\* fence.
C25_FirstFencedBlock ==
  call.op = "_extract_code" =>
    LET text == call.text
        first == find(text, Fences, 1)
        end == IF first = 0 THEN 0 ELSE find(text, {Fence}, first + 1)
    IN  /\ end > first + 1 =>
              call.ret = strip(SubSeq(text, first + 1, end - 1))
        /\ first = 0 => call.ret = strip(text)

\* C26 (as stated): for every name, built in or not, once
\* update_function(name, code, save = True) has saved, a new library on the
\* same file returns code for the name.
C26_RoundTripAsStated ==
  (/\ call.op = "__init__" /\ call.prev.op = "update_function"
   /\ call.prev.save /\ call.prev.write = "ok") =>
    get_function(functions, call.prev.name) = call.prev.code

\* C26 (amended): for every name that is not built in, once
\* update_function(name, code, save = True) has saved, a new library on the
\* same file returns code for the name; an update of a built-in name is not
\* written to the file, so the new library returns the built-in body; an
\* entry the file holds at construction shadows the built-in of its name.
C26_RoundTrip ==
  call.op = "__init__" =>
    /\ (/\ call.prev.op = "update_function"
        /\ call.prev.save /\ call.prev.write = "ok") =>
          get_function(functions, call.prev.name) =
            IF call.prev.name \in BuiltinNames
              THEN _load_builtin_functions[call.prev.name]
              ELSE call.prev.code
    /\ custom_file.state = "written" =>
          \A n \in DOMAIN custom_file.content :
            get_function(functions, n) = custom_file.content[n]
C26_Witness ==
  /\ call.op = "__init__" /\ call.prev.op = "update_function"
  /\ call.prev.save /\ call.prev.write = "ok"
  /\ call.prev.name = "setup_lighting" /\ call.prev.code = "new"
  /\ get_function(functions, "setup_lighting") = "new"
C26_ShadowWitness ==
  /\ call.op = "__init__" /\ custom_file.state = "written"
  /\ "import_asset" \in DOMAIN custom_file.content
  /\ get_function(functions, "import_asset") = "new"

\* C28: with only the built-in functions loaded, every name of the mapping
\* of get_relevant_functions is in the library, so the text returned for
\* each of scene, character, motion, lighting and cinematography is not
\* empty.
C28_MappedNamesBuiltIn ==
  (/\ call.op = "get_relevant_functions"
   /\ functions = _load_builtin_functions
   /\ call.process_type \in TaxonomyKeys) =>
    /\ \A i \in 1..Len(function_mapping(call.process_type)) :
         function_mapping(call.process_type)[i] \in DOMAIN functions
    /\ call.ret # <<>>

\* C27: two runs with a library each on one document race on it: every save
\* rewrites the document from the entries the saving library holds in
\* memory that are not built in, and from nothing else; so after run A has
\* saved an update of n1 and run B one of n2, n1 # n2, the document can lack
\* one of the two entries.
C27_SaveRewritesFromMemory ==
  (call.op = "update_function" /\ call.save /\ call.write = "ok") =>
    custom_file = Written(custom_functions(functions_of(call.run)))
C27_Witness ==
  /\ \E a \in saves, b \in saves :
       /\ a.run = "A" /\ b.run = "B" /\ a.name # b.name
       /\ custom_file.state = "written"
       /\ \/ a.name \notin DOMAIN custom_file.content
          \/ b.name \notin DOMAIN custom_file.content
  /\ call.op = "update_function" /\ call.save /\ call.write = "ok"
====
